---- MODULE Spec2Model ----
(***************************************************************************)
(* sizr: a model of src/main.rs.                                           *)
(*                                                                         *)
(* Strings are sequences of one-character strings.  A u64 and the          *)
(* magnitude of an f64 are unbounded naturals written as little-endian     *)
(* sequences of 15-bit limbs without leading zeros (<<>> is 0), so that    *)
(* 2^53 and 2^64 keep their real width.  A path is the sequence of its     *)
(* components.  File sizes are small, so no sum reaches the u64 limit.     *)
(***************************************************************************)
EXTENDS Integers, Sequences, FiniteSets, Bags, TLC

VARIABLES args, fs, pc, include_files, include_directories, min_size_bytes,
          dir_sizes, items, walk, out

vars == <<args, fs, pc, include_files, include_directories, min_size_bytes,
          dir_sizes, items, walk, out>>

----------------------------------------------------------------------------
(* Natural numbers of any width, as limb sequences.                        *)

Base == 2 ^ 15

Max(a, b) == IF a >= b THEN a ELSE b

Tail1(a) == IF a = <<>> THEN <<>> ELSE Tail(a)

Limb(a, i) == IF i <= Len(a) THEN a[i] ELSE 0

RECURSIVE BNorm(_)
BNorm(b) ==
    IF b = <<>> THEN <<>>
    ELSE IF b[Len(b)] = 0 THEN BNorm(SubSeq(b, 1, Len(b) - 1))
    ELSE b

RECURSIVE BFromNat(_)
BFromNat(n) == IF n = 0 THEN <<>> ELSE <<n % Base>> \o BFromNat(n \div Base)

RECURSIVE BAddC(_, _, _)
BAddC(a, b, c) ==
    IF a = <<>> /\ b = <<>> THEN (IF c = 0 THEN <<>> ELSE <<c>>)
    ELSE LET s == Limb(a, 1) + Limb(b, 1) + c
         IN  <<s % Base>> \o BAddC(Tail1(a), Tail1(b), s \div Base)

BAdd(a, b) == BAddC(a, b, 0)

\* a * k + c for a small k
RECURSIVE BMulSmallC(_, _, _)
BMulSmallC(a, k, c) ==
    IF a = <<>> THEN BFromNat(c)
    ELSE LET s == a[1] * k + c
         IN  <<s % Base>> \o BMulSmallC(Tail(a), k, s \div Base)

BMulSmall(a, k) == BNorm(BMulSmallC(a, k, 0))

RECURSIVE BMul(_, _)
BMul(a, b) ==
    IF a = <<>> \/ b = <<>> THEN <<>>
    ELSE LET hi == BMul(a, Tail(b))
         IN  BAdd(BMulSmall(a, b[1]), IF hi = <<>> THEN <<>> ELSE <<0>> \o hi)

\* quotient and remainder of the limbs i.. of a by a small k
RECURSIVE BDivSmallFrom(_, _, _)
BDivSmallFrom(a, k, i) ==
    IF i > Len(a) THEN [q |-> <<>>, r |-> 0]
    ELSE LET hi == BDivSmallFrom(a, k, i + 1)
             n  == hi.r * Base + a[i]
         IN  [q |-> <<n \div k>> \o hi.q, r |-> n % k]

BDivSmall(a, k) ==
    LET d == BDivSmallFrom(a, k, 1) IN [q |-> BNorm(d.q), r |-> d.r]

RECURSIVE NatBitLen(_)
NatBitLen(n) == IF n = 0 THEN 0 ELSE 1 + NatBitLen(n \div 2)

LimbBits == NatBitLen(Base) - 1

BitLen(a) ==
    IF a = <<>> THEN 0 ELSE (Len(a) - 1) * LimbBits + NatBitLen(a[Len(a)])

\* a * 2^n
BShl(a, n) ==
    IF a = <<>> THEN <<>>
    ELSE [i \in 1..(n \div LimbBits) |-> 0] \o BMulSmall(a, 2 ^ (n % LimbBits))

\* a div 2^n
BShr(a, n) ==
    IF n \div LimbBits >= Len(a) THEN <<>>
    ELSE BDivSmall(SubSeq(a, n \div LimbBits + 1, Len(a)), 2 ^ (n % LimbBits)).q

\* bit i of a, the lowest being bit 1
BBit(a, i) ==
    (Limb(a, (i - 1) \div LimbBits + 1) \div 2 ^ ((i - 1) % LimbBits)) % 2

\* 2^n - 1
Ones(n) ==
    BNorm([i \in 1..(n \div LimbBits) |-> Base - 1] \o <<2 ^ (n % LimbBits) - 1>>)

RECURSIVE BGeqFrom(_, _, _)
BGeqFrom(a, b, i) ==
    IF i = 0 THEN TRUE
    ELSE IF a[i] # b[i] THEN a[i] > b[i]
    ELSE BGeqFrom(a, b, i - 1)

BGeq(a, b) ==
    IF Len(a) # Len(b) THEN Len(a) > Len(b) ELSE BGeqFrom(a, b, Len(a))

RECURSIVE BPow(_, _)
BPow(k, n) == IF n = 0 THEN <<1>> ELSE BMulSmall(BPow(k, n - 1), k)

\* quotient of a by k^n, and whether the division left a remainder
RECURSIVE BDivPow(_, _, _)
BDivPow(a, k, n) ==
    IF n = 0 THEN [q |-> a, inexact |-> FALSE]
    ELSE LET d == BDivSmall(a, k)
             e == BDivPow(d.q, k, n - 1)
         IN  [q |-> e.q, inexact |-> e.inexact \/ d.r # 0]

----------------------------------------------------------------------------
(* f64: the value (-1)^neg * m * 2^e with m of at most MantissaBits bits.  *)

MantissaBits == 53

U64Bits == 64

F64(neg, m, e) == [neg |-> neg, m |-> m, e |-> e]

\* round to nearest, ties to even: the top MantissaBits bits of x, where
\* `sticky` says that a nonzero part below bit 1 was already cut off
RoundMantissa(x, sticky) ==
    IF BitLen(x) <= MantissaBits THEN [m |-> x, drop |-> 0]
    ELSE LET drop  == BitLen(x) - MantissaBits
             kept  == BShr(x, drop)
             guard == BBit(x, drop)
             rest  == sticky \/ \E i \in 1..(drop - 1) : BBit(x, i) = 1
             up    == guard = 1 /\ (rest \/ BBit(kept, 1) = 1)
         IN  [m |-> IF up THEN BAdd(kept, <<1>>) ELSE kept, drop |-> drop]

\* the f64 nearest to num / 10^frac
F64FromDecimal(neg, num, frac) ==
    IF num = <<>> THEN F64(neg, <<>>, 0)
    ELSE LET s  == Max(0, MantissaBits + 3 + BitLen(BPow(10, frac)) - BitLen(num))
             d  == BDivPow(BShl(num, s), 10, frac)
             rm == RoundMantissa(d.q, d.inexact)
         IN  F64(neg, rm.m, rm.drop - s)

\* `multiplier as f64`
U64ToF64(u) == F64FromDecimal(FALSE, u, 0)

\* `number * multiplier`
F64Mul(x, y) ==
    LET rm == RoundMantissa(BMul(x.m, y.m), FALSE)
    IN  F64(x.neg # y.neg, rm.m, x.e + y.e + rm.drop)

\* `as u64`: truncates toward zero and saturates at 0 and at u64::MAX
F64ToU64(x) ==
    IF x.neg THEN <<>>
    ELSE IF x.e < 0 THEN BShr(x.m, 0 - x.e)
    ELSE LET v == BShl(x.m, x.e)
         IN  IF BitLen(v) > U64Bits THEN Ones(U64Bits) ELSE v

----------------------------------------------------------------------------
(* Characters and str::parse::<f64>.                                       *)

Digits == {"0", "1", "2", "3", "4", "5", "6", "7", "8", "9"}

DigitVal(c) ==
    CASE c = "0" -> 0 [] c = "1" -> 1 [] c = "2" -> 2 [] c = "3" -> 3
      [] c = "4" -> 4 [] c = "5" -> 5 [] c = "6" -> 6 [] c = "7" -> 7
      [] c = "8" -> 8 [] c = "9" -> 9

LowerLetters == {"b", "k", "m", "g", "t", "x", "i", "e"}

UpperLetters == {"B", "K", "M", "G", "T", "X", "I", "E"}

is_alphabetic(c) == c \in LowerLetters \cup UpperLetters

UpperChar(c) ==
    CASE c = "b" -> "B" [] c = "k" -> "K" [] c = "m" -> "M" [] c = "g" -> "G"
      [] c = "t" -> "T" [] c = "x" -> "X" [] c = "i" -> "I" [] c = "e" -> "E"
      [] OTHER -> c

to_uppercase(s) == [i \in 1..Len(s) |-> UpperChar(s[i])]

\* str::find: the first index whose character is alphabetic, 0 for None
find_alphabetic(s) ==
    IF \E i \in 1..Len(s) : is_alphabetic(s[i])
    THEN CHOOSE i \in 1..Len(s) :
            /\ is_alphabetic(s[i])
            /\ \A j \in 1..(i - 1) : ~is_alphabetic(s[j])
    ELSE 0

\* the number a digit string denotes
RECURSIVE BFromDec(_)
BFromDec(ds) ==
    IF ds = <<>> THEN <<>>
    ELSE BNorm(BMulSmallC(BFromDec(SubSeq(ds, 1, Len(ds) - 1)), 10,
                          DigitVal(ds[Len(ds)])))

Ok(v) == [ok |-> TRUE, val |-> v]

Err(e) == [ok |-> FALSE, err |-> e]

\* f64::from_str on a string without letters:
\*   Sign? ( Digit+ | Digit+ '.' Digit* | Digit* '.' Digit+ )
ParseF64(s) ==
    LET signed == s # <<>> /\ s[1] \in {"+", "-"}
        body   == IF signed THEN SubSeq(s, 2, Len(s)) ELSE s
        dots   == {i \in 1..Len(body) : body[i] = "."}
        ds     == SelectSeq(body, LAMBDA c : c # ".")
        frac   == IF dots = {} THEN 0
                  ELSE Len(body) - (CHOOSE i \in dots : TRUE)
    IN  IF /\ Cardinality(dots) <= 1
           /\ ds # <<>>
           /\ \A i \in 1..Len(ds) : ds[i] \in Digits
        THEN Ok(F64FromDecimal(signed /\ s[1] = "-", BFromDec(ds), frac))
        ELSE Err("InvalidNumber")

----------------------------------------------------------------------------
(* fn parse_size                                                           *)

KiB == 1024

\* decimal multiples in place of binary ones
Pow1000(k) == BPow(1000, k)

Pow1024(k) == BPow(KiB, k)

\* the match on unit_part: the power of 1024, or -1 for the `_` arm
UnitPower(unit_part) ==
    CASE unit_part = <<>>           -> 0
      [] unit_part = <<"B">>        -> 0
      [] unit_part = <<"K", "B">>   -> 1
      [] unit_part = <<"M", "B">>   -> 2
      [] unit_part = <<"G", "B">>   -> 3
      [] unit_part = <<"T", "B">>   -> 4
      [] OTHER                      -> 0 - 1

parse_size(size_str) ==
    IF size_str = <<"0">> THEN Ok(<<>>)
    ELSE LET upper       == to_uppercase(size_str)
             pos         == find_alphabetic(upper)
             number_part == IF pos # 0 THEN SubSeq(upper, 1, pos - 1) ELSE upper
             unit_part   == IF pos # 0 THEN SubSeq(upper, pos, Len(upper)) ELSE <<>>
             number      == ParseF64(number_part)
             k           == UnitPower(unit_part)
         IN  IF ~number.ok THEN Err("InvalidNumber")
             ELSE IF k < 0 THEN Err("UnknownUnit")
             ELSE Ok(F64ToU64(F64Mul(number.val, U64ToF64(Pow1024(k)))))

----------------------------------------------------------------------------
(* Paths and the file system under the scan root.                          *)

MaxEntries == 3

MaxDepth == 3

MaxSize == 1

\* entry names in directory order; the last two are not valid UTF-8
NameSeq == <<"a", "0xFF", "0xFE">>

Names == {NameSeq[i] : i \in 1..Len(NameSeq)}

NonUtf8 == {"0xFF", "0xFE"}

\* OsStr::to_string_lossy: every invalid sequence becomes U+FFFD
LossyName(n) == IF n \in NonUtf8 THEN "U+FFFD" ELSE n

\* Path::to_string_lossy().to_string()
to_string_lossy(p) == [i \in 1..Len(p) |-> LossyName(p[i])]

None == [some |-> FALSE]

Some(v) == [some |-> TRUE, val |-> v]

\* Path::parent: None for the empty path and for the root directory "/"
parent(p) ==
    IF p = <<>> \/ p = <<"/">> THEN None ELSE Some(SubSeq(p, 1, Len(p) - 1))

Dir == [kind |-> "dir", size |-> 0, meta_ok |-> TRUE]

File(n) == [kind |-> "file", size |-> n, meta_ok |-> TRUE]

\* a regular file whose metadata can no longer be read
GoneFile == [kind |-> "file", size |-> 0, meta_ok |-> FALSE]

\* an entry for which the traversal yields an error
ErrEntry == [kind |-> "err", size |-> 0, meta_ok |-> FALSE]

LeafNodes == {Dir, GoneFile, ErrEntry} \cup {File(n) : n \in 0..MaxSize}

IsPrefix(p, q) == Len(p) <= Len(q) /\ SubSeq(q, 1, Len(p)) = p

IsProperPrefix(p, q) == Len(p) < Len(q) /\ SubSeq(q, 1, Len(p)) = p

\* the sets of relative paths that are closed under parent, by size
RECURSIVE Shapes(_)
Shapes(n) ==
    IF n = 0 THEN {{}}
    ELSE LET prev == Shapes(n - 1)
             grow(T) == {T \cup {p \o <<x>>} :
                            p \in {<<>>} \cup {q \in T : Len(q) < MaxDepth},
                            x \in Names}
         IN  prev \cup UNION {grow(T) : T \in {U \in prev : Cardinality(U) = n - 1}}

HasChild(T, p) == \E q \in T : IsProperPrefix(p, q)

\* the trees below a root directory
Trees ==
    UNION {
        {[p \in T |-> IF HasChild(T, p) THEN Dir ELSE g[p]] :
            g \in [{p \in T : ~HasChild(T, p)} -> LeafNodes]} :
        T \in {U \in Shapes(MaxEntries) : Cardinality(U) <= MaxEntries}}

\* the file system: the root node, and a tree below it
FsAt(root, node, tree) ==
    [q \in {root} \cup {root \o p : p \in DOMAIN tree} |->
        IF q = root THEN node ELSE tree[SubSeq(q, Len(root) + 1, Len(q))]]

EmptyMap == [k \in {} |-> 0]

FileSystems(root) ==
    {EmptyMap}
      \cup {FsAt(root, n, EmptyMap) : n \in {GoneFile} \cup {File(k) : k \in 0..MaxSize}}
      \cup {FsAt(root, Dir, t) : t \in Trees}

exists(p) == p \in DOMAIN fs

is_file(p) == p \in DOMAIN fs /\ fs[p].kind = "file"

is_dir(p) == p \in DOMAIN fs /\ fs[p].kind = "dir"

\* the children of p, in directory order
Children(p) ==
    SelectSeq([i \in 1..Len(NameSeq) |-> p \o <<NameSeq[i]>>],
              LAMBDA q : q \in DOMAIN fs)

\* WalkDir::new(p).into_iter(): p, then what is below it, depth first
RECURSIVE WalkFrom(_)
RECURSIVE WalkAll(_)
WalkFrom(p) == <<p>> \o (IF is_dir(p) THEN WalkAll(Children(p)) ELSE <<>>)

WalkAll(ps) ==
    IF ps = <<>> THEN <<>> ELSE WalkFrom(Head(ps)) \o WalkAll(Tail(ps))

\* WalkDir::new(path).min_depth(d)
WalkDir(path, min_depth) ==
    IF ~exists(path) THEN <<>>
    ELSE IF min_depth = 0 THEN WalkFrom(path) ELSE Tail(WalkFrom(path))

\* the item the iterator yields for q is an Err
IsErr(q) == fs[q].kind = "err"

----------------------------------------------------------------------------
(* fn main, fn scan_directory, fn display_results                          *)

DefaultLimit == 10

Limits == {0, 1, DefaultLimit}

RootPaths == {<<"p", "r">>}

MinSizeArgs == {<<"0">>, <<"1">>, <<"2", "b">>, <<"5", "X", "B">>}

\* the two flags taken as independent toggles
ResolveModeIndependent(dirs_only, files_only) == <<~dirs_only, ~files_only>>

\* (include_files, include_directories) from the two flags
ResolveMode(dirs_only, files_only) ==
    IF dirs_only THEN <<FALSE, TRUE>>
    ELSE IF files_only THEN <<TRUE, FALSE>>
    ELSE <<TRUE, TRUE>>

\* size > min_size
MeetsMinimumStrict(size, min_size) == ~BGeq(min_size, BFromNat(size))

\* size >= min_size, on u64
MeetsMinimum(size, min_size) == BGeq(BFromNat(size), min_size)

Item(path, size, is_directory) ==
    [path |-> to_string_lossy(path), size |-> size, is_directory |-> is_directory]

\* *dir_sizes.entry(key).or_insert(0) += size
AddSize(m, key, size) ==
    IF key \in DOMAIN m THEN [m EXCEPT ![key] = @ + size]
    ELSE [k \in DOMAIN m \cup {key} |-> IF k = key THEN size ELSE m[k]]

\* the while-let loop over the parent chain, from `current`
RECURSIVE AddToParents(_, _, _)
AddToParents(m, current, size) ==
    IF ~current.some THEN m
    ELSE AddToParents(AddSize(m, to_string_lossy(current.val), size),
                      parent(current.val), size)

\* dir_sizes.get(&path_str).copied().unwrap_or(0)
GetSize(m, key) == IF key \in DOMAIN m THEN m[key] ELSE 0

\* x put behind every element that does not compare greater than it
RECURSIVE Insert(_, _)
Insert(sorted, x) ==
    IF sorted = <<>> THEN <<x>>
    ELSE IF Head(sorted).size >= x.size
         THEN <<Head(sorted)>> \o Insert(Tail(sorted), x)
         ELSE <<x>> \o sorted

\* a sort that drops the entries that tie with an earlier one
RECURSIVE SortDroppingTies(_)
SortDroppingTies(xs) ==
    IF xs = <<>> THEN <<>>
    ELSE LET rest == SortDroppingTies(SubSeq(xs, 1, Len(xs) - 1))
             x    == xs[Len(xs)]
         IN  IF \E i \in 1..Len(rest) : rest[i].size = x.size THEN rest
             ELSE Insert(rest, x)

\* items.sort_by(|a, b| b.size.cmp(&a.size)): stable, largest first
RECURSIVE SortBySizeDesc(_)
SortBySizeDesc(xs) ==
    IF xs = <<>> THEN <<>>
    ELSE Insert(SortBySizeDesc(SubSeq(xs, 1, Len(xs) - 1)), xs[Len(xs)])

RECURSIVE SumFileSizes(_)
SumFileSizes(xs) ==
    IF xs = <<>> THEN 0
    ELSE (IF Head(xs).is_directory THEN 0 ELSE Head(xs).size)
         + SumFileSizes(Tail(xs))

Output(kind, error, shown, more, total) ==
    [kind |-> kind, error |-> error, shown |-> shown, more |-> more,
     total |-> total]

NoOutput == Output("none", "", <<>>, 0, 0)

Failure(error) == Output("error", error, <<>>, 0, 0)

display_results(xs, limit) ==
    LET display_count == IF Len(xs) <= limit THEN Len(xs) ELSE limit
    IN  Output("table", "", SubSeq(xs, 1, display_count),
               IF Len(xs) > limit THEN Len(xs) - limit ELSE 0,
               SumFileSizes(xs))

\* magnitudes around the claim's examples, 2^24, 2^53 and 2^64
Magnitudes ==
    { <<"0">>, <<"1">>, <<"2">>, <<"1", "0">>, <<"5", "0", "0">>,
      <<"1", "0", "2", "4">>,
      <<"1", "6", "7", "7", "7", "2", "1", "5">>,
      <<"1", "6", "7", "7", "7", "2", "1", "6">>,
      <<"9", "0", "0", "7", "1", "9", "9", "2", "5", "4", "7", "4", "0", "9", "9", "2">>,
      <<"9", "0", "0", "7", "1", "9", "9", "2", "5", "4", "7", "4", "0", "9", "9", "3">>,
      <<"1", "8", "4", "4", "6", "7", "4", "4", "0", "7", "3", "7", "0", "9", "5", "5",
        "1", "6", "1", "5">>,
      <<"1", "8", "4", "4", "6", "7", "4", "4", "0", "7", "3", "7", "0", "9", "5", "5",
        "1", "6", "1", "6">>,
      <<>>, <<"1", ".", "5">>, <<".", "5">>, <<"-", "1">>, <<"+", "3">>, <<"1", " ">> }

Suffixes ==
    { <<>>, <<"B">>, <<"b">>, <<"K", "B">>, <<"k", "b">>, <<"K", "b">>,
      <<"M", "B">>, <<"m", "B">>, <<"G", "B">>, <<"g", "b">>, <<"T", "B">>,
      <<"t", "b">>, <<"X", "B">>, <<"K">>, <<"K", "I", "B">>, <<"b", "b">>,
      <<"e", "3">> }

ParseInputs == {m \o u : m \in Magnitudes, u \in Suffixes}

\* the inputs of parse_size, each parsed once
ParsedSizes == [s \in MinSizeArgs \cup ParseInputs |-> parse_size(s)]

Init ==
    /\ args \in [path : RootPaths, dirs_only : BOOLEAN, files_only : BOOLEAN,
                 min_size : MinSizeArgs]
    /\ fs \in FileSystems(args.path)
    /\ pc = "main"
    /\ include_files = FALSE
    /\ include_directories = FALSE
    /\ min_size_bytes = <<>>
    /\ dir_sizes = EmptyMap
    /\ items = <<>>
    /\ walk = <<>>
    /\ out = NoOutput

\* main: the inclusion flags and the minimum size
MainParseSize ==
    /\ pc = "main"
    /\ LET mode == ResolveMode(args.dirs_only, args.files_only)
           r    == ParsedSizes[args.min_size]
       IN  /\ include_files' = mode[1]
           /\ include_directories' = mode[2]
           /\ IF r.ok
              THEN /\ min_size_bytes' = r.val
                   /\ pc' = "parsed"
                   /\ out' = out
              ELSE /\ min_size_bytes' = min_size_bytes
                   /\ pc' = "exit_err"
                   /\ out' = Failure("InvalidSizeSpec")
    /\ UNCHANGED <<args, fs, dir_sizes, items, walk>>

\* main without the check that the path exists
MainNoPathCheck ==
    /\ pc = "parsed"
    /\ pc' = "pass1"
    /\ walk' = WalkDir(args.path, 0)
    /\ UNCHANGED <<args, fs, include_files, include_directories,
                   min_size_bytes, dir_sizes, items, out>>

\* main: the path must exist; then scan_directory starts its first pass
MainCheckPath ==
    /\ pc = "parsed"
    /\ IF ~exists(args.path)
       THEN /\ pc' = "exit_err"
            /\ out' = Failure("InvalidRoot")
            /\ walk' = walk
       ELSE /\ pc' = "pass1"
            /\ out' = out
            /\ walk' = WalkDir(args.path, 0)
    /\ UNCHANGED <<args, fs, include_files, include_directories,
                   min_size_bytes, dir_sizes, items>>

\* first pass: filter_map(|e| e.ok()) drops an error of the traversal
Pass1SkipErr ==
    /\ pc = "pass1"
    /\ walk # <<>>
    /\ IsErr(Head(walk))
    /\ walk' = Tail(walk)
    /\ UNCHANGED <<args, fs, pc, include_files, include_directories,
                   min_size_bytes, dir_sizes, items, out>>

\* first pass: an entry that is not a regular file
Pass1NotFile ==
    /\ pc = "pass1"
    /\ walk # <<>>
    /\ ~IsErr(Head(walk))
    /\ ~is_file(Head(walk))
    /\ walk' = Tail(walk)
    /\ UNCHANGED <<args, fs, pc, include_files, include_directories,
                   min_size_bytes, dir_sizes, items, out>>

\* a metadata failure treated like an error of the traversal
Pass1MetadataSkipped ==
    /\ pc = "pass1"
    /\ walk # <<>>
    /\ ~IsErr(Head(walk))
    /\ is_file(Head(walk))
    /\ ~fs[Head(walk)].meta_ok
    /\ walk' = Tail(walk)
    /\ UNCHANGED <<args, fs, pc, include_files, include_directories,
                   min_size_bytes, dir_sizes, items, out>>

\* first pass: fs::metadata fails and `?` returns the error
Pass1MetadataErr ==
    /\ pc = "pass1"
    /\ walk # <<>>
    /\ ~IsErr(Head(walk))
    /\ is_file(Head(walk))
    /\ ~fs[Head(walk)].meta_ok
    /\ pc' = "exit_err"
    /\ out' = Failure("MetadataReadFailure")
    /\ items' = <<>>
    /\ dir_sizes' = EmptyMap
    /\ walk' = <<>>
    /\ UNCHANGED <<args, fs, include_files, include_directories,
                   min_size_bytes>>

\* first pass: a regular file is added to its ancestors, and listed
Pass1File ==
    /\ pc = "pass1"
    /\ walk # <<>>
    /\ ~IsErr(Head(walk))
    /\ is_file(Head(walk))
    /\ fs[Head(walk)].meta_ok
    /\ LET entry_path == Head(walk)
           size       == fs[entry_path].size
       IN  /\ dir_sizes' = AddToParents(dir_sizes, parent(entry_path), size)
           /\ items' = IF include_files /\ MeetsMinimum(size, min_size_bytes)
                       THEN Append(items, Item(entry_path, size, FALSE))
                       ELSE items
    /\ walk' = Tail(walk)
    /\ UNCHANGED <<args, fs, pc, include_files, include_directories,
                   min_size_bytes, out>>

\* the first loop ends; the second runs only if directories are included
Pass1Done ==
    /\ pc = "pass1"
    /\ walk = <<>>
    /\ IF include_directories
       THEN /\ pc' = "pass2"
            /\ walk' = WalkDir(args.path, 1)
       ELSE /\ pc' = "sort"
            /\ walk' = walk
    /\ UNCHANGED <<args, fs, include_files, include_directories,
                   min_size_bytes, dir_sizes, items, out>>

Pass2SkipErr ==
    /\ pc = "pass2"
    /\ walk # <<>>
    /\ IsErr(Head(walk))
    /\ walk' = Tail(walk)
    /\ UNCHANGED <<args, fs, pc, include_files, include_directories,
                   min_size_bytes, dir_sizes, items, out>>

Pass2NotDir ==
    /\ pc = "pass2"
    /\ walk # <<>>
    /\ ~IsErr(Head(walk))
    /\ ~is_dir(Head(walk))
    /\ walk' = Tail(walk)
    /\ UNCHANGED <<args, fs, pc, include_files, include_directories,
                   min_size_bytes, dir_sizes, items, out>>

\* second pass: a directory is listed with its accumulated size
Pass2Dir ==
    /\ pc = "pass2"
    /\ walk # <<>>
    /\ ~IsErr(Head(walk))
    /\ is_dir(Head(walk))
    /\ LET entry_path == Head(walk)
           size       == GetSize(dir_sizes, to_string_lossy(entry_path))
       IN  items' = IF MeetsMinimum(size, min_size_bytes)
                    THEN Append(items, Item(entry_path, size, TRUE))
                    ELSE items
    /\ walk' = Tail(walk)
    /\ UNCHANGED <<args, fs, pc, include_files, include_directories,
                   min_size_bytes, dir_sizes, out>>

Pass2Done ==
    /\ pc = "pass2"
    /\ walk = <<>>
    /\ pc' = "sort"
    /\ UNCHANGED <<args, fs, include_files, include_directories,
                   min_size_bytes, dir_sizes, items, walk, out>>

\* scan_directory sorts and returns Ok(items)
SortAndReturn ==
    /\ pc = "sort"
    /\ items' = SortBySizeDesc(items)
    /\ pc' = "scanned"
    /\ UNCHANGED <<args, fs, include_files, include_directories,
                   min_size_bytes, dir_sizes, walk, out>>

\* main: nothing matched
MainNoItems ==
    /\ pc = "scanned"
    /\ items = <<>>
    /\ out' = Output("empty", "", <<>>, 0, 0)
    /\ pc' = "exit_ok"
    /\ UNCHANGED <<args, fs, include_files, include_directories,
                   min_size_bytes, dir_sizes, items, walk>>

\* main: display_results(items, args.limit)
MainDisplay ==
    /\ pc = "scanned"
    /\ items # <<>>
    /\ \E limit \in Limits : out' = display_results(items, limit)
    /\ pc' = "exit_ok"
    /\ UNCHANGED <<args, fs, include_files, include_directories,
                   min_size_bytes, dir_sizes, items, walk>>

Next ==
    \/ MainParseSize
    \/ MainCheckPath
    \/ Pass1SkipErr
    \/ Pass1NotFile
    \/ Pass1MetadataErr
    \/ Pass1File
    \/ Pass1Done
    \/ Pass2SkipErr
    \/ Pass2NotDir
    \/ Pass2Dir
    \/ Pass2Done
    \/ SortAndReturn
    \/ MainNoItems
    \/ MainDisplay

Spec == Init /\ [][Next]_vars

\* parse_size alone, over ParseInputs
InitParse ==
    /\ args \in [path : RootPaths, dirs_only : {FALSE}, files_only : {FALSE},
                 min_size : ParseInputs]
    /\ fs = EmptyMap
    /\ pc = "main"
    /\ include_files = FALSE
    /\ include_directories = FALSE
    /\ min_size_bytes = <<>>
    /\ dir_sizes = EmptyMap
    /\ items = <<>>
    /\ walk = <<>>
    /\ out = NoOutput

SpecParse == InitParse /\ [][MainParseSize]_vars

----------------------------------------------------------------------------
(* What the properties speak about.                                        *)

Root == args.path

RegularFiles == {p \in DOMAIN fs : fs[p].kind = "file"}

Directories == {p \in DOMAIN fs : fs[p].kind = "dir"}

RECURSIVE SumSizes(_)
SumSizes(S) ==
    IF S = {} THEN 0
    ELSE LET p == CHOOSE q \in S : TRUE IN fs[p].size + SumSizes(S \ {p})

\* the bytes of the regular files below D
ContainedSize(D) == SumSizes({p \in RegularFiles : IsProperPrefix(D, p)})

FilePassFinished == pc \in {"pass2", "sort", "scanned", "exit_ok"}

ScanReturned == pc \in {"scanned", "exit_ok"}

Count(x, xs) == Cardinality({i \in 1..Len(xs) : xs[i] = x})

Range(xs) == {xs[i] : i \in 1..Len(xs)}

SameBag(xs, ys) ==
    \A x \in Range(xs) \cup Range(ys) : Count(x, xs) = Count(x, ys)

IsSortedDesc(xs) == \A i \in 1..(Len(xs) - 1) : xs[i].size >= xs[i + 1].size

\* the size the scan has for a directory
ScannedSize(D) == GetSize(dir_sizes, to_string_lossy(D))

FileItem(p) == Item(p, fs[p].size, FALSE)

DirItem(D) == Item(D, ScannedSize(D), TRUE)

RECURSIVE ToNat(_)
ToNat(b) == IF b = <<>> THEN 0 ELSE b[1] + Base * ToNat(Tail(b))

\* the threshold as a number (small in Spec)
MinSize == ToNat(min_size_bytes)

----------------------------------------------------------------------------
(* C1: once the file pass has finished, the accumulated size of every      *)
(* directory D under the scan root, and the size of every Directory entry  *)
(* emitted for D, is the sum of the sizes of the regular files below D,    *)
(* and 0 when there is none.                                               *)
C1_DirectorySizeIsSumOfFiles ==
    FilePassFinished =>
        \A D \in Directories :
            /\ ScannedSize(D) = ContainedSize(D)
            /\ \A i \in 1..Len(items) :
                   (/\ items[i].is_directory
                    /\ D # Root
                    /\ items[i].path = to_string_lossy(D))
                   => items[i].size = ContainedSize(D)

\* where C1 holds: no two directories share a lossy path string
DistinctKeys ==
    \A D, E \in Directories : to_string_lossy(D) = to_string_lossy(E) => D = E

C1_HoldsWithDistinctKeys == DistinctKeys => C1_DirectorySizeIsSumOfFiles

(* C2: with minimum size 0, in every inclusion mode and for every limit,   *)
(* the total that display_results reports is the sum of the sizes of all   *)
(* regular files under the scan root.                                      *)
C2_TotalIsSumOfAllFiles ==
    (pc = "exit_ok" /\ out.kind = "table" /\ min_size_bytes = <<>>)
        => out.total = SumSizes(RegularFiles)

\* where C2 holds: files are included
C2_HoldsWhenFilesIncluded == include_files => C2_TotalIsSumOfAllFiles

(* C3: the file pass creates or increments a DirectorySizeMap key only for *)
(* the scan root and directories below it, never for the parent of the     *)
(* scan root or a directory above it.                                      *)
C3_NoKeyAboveRoot ==
    \A k \in DOMAIN dir_sizes : IsPrefix(to_string_lossy(Root), k)

(* C4: whether the scan root is a directory or a regular file, no entry    *)
(* of the list scan_directory builds has the scan root as its path.        *)
C4_RootNeverListed ==
    \A i \in 1..Len(items) : items[i].path # to_string_lossy(Root)

(* C5: in the result of scan_directory every entry has size >= minSize,    *)
(* and every regular file and every directory strictly below the root of   *)
(* an included kind whose size is >= minSize is in the result (as often    *)
(* as there are such entries with that path string and size), so what is   *)
(* absent has size < minSize; files and directories are treated alike.     *)
C5_ThresholdInclusive ==
    ScanReturned =>
        /\ \A i \in 1..Len(items) :
               items[i].size >= MinSize
        /\ include_files =>
               \A p \in RegularFiles :
                   fs[p].size >= MinSize =>
                       Count(FileItem(p), items) =
                           Cardinality({q \in RegularFiles :
                                           FileItem(q) = FileItem(p)})
        /\ include_directories =>
               \A D \in Directories \ {Root} :
                   ScannedSize(D) >= MinSize =>
                       Count(DirItem(D), items) =
                           Cardinality({E \in Directories \ {Root} :
                                           DirItem(E) = DirItem(D)})

C5_Witness ==
    /\ ScanReturned
    /\ min_size_bytes = <<1>>
    /\ \E p \in RegularFiles : fs[p].size = 1 /\ FileItem(p) \in Range(items)
    /\ \E p \in RegularFiles : fs[p].size = 0 /\ FileItem(p) \notin Range(items)
    /\ \E D \in Directories \ {Root} :
           ScannedSize(D) = 1 /\ DirItem(D) \in Range(items)

(* C6: the list scan_directory returns is sorted by size, largest first,   *)
(* and is a permutation of the entries the two passes emitted: the sort    *)
(* drops, duplicates and alters nothing.                                   *)
C6_SortedPermutation ==
    [][/\ pc = "sort" => SameBag(items, items')
       /\ pc' \in {"scanned", "exit_ok"} => IsSortedDesc(items')]_vars

C6_Witness ==
    /\ pc = "scanned"
    /\ \E i, j \in 1..Len(items) :
           /\ i < j
           /\ items[i].is_directory
           /\ ~items[j].is_directory
           /\ items[i].size > items[j].size

(* C7: the mode main resolves is one of the three (files and directories,  *)
(* directories only, files only) whatever the two flags are; in files-only *)
(* mode the result has no Directory entry and in directories-only mode it  *)
(* has no File entry.                                                      *)
C7_ModesExclusive ==
    pc # "main" =>
        /\ <<include_files, include_directories>>
               \in {<<TRUE, TRUE>>, <<FALSE, TRUE>>, <<TRUE, FALSE>>}
        /\ (args.files_only /\ ~args.dirs_only)
               => (include_files /\ ~include_directories)
        /\ (args.dirs_only /\ ~args.files_only)
               => (~include_files /\ include_directories)
        /\ (include_files /\ ~include_directories)
               => \A i \in 1..Len(items) : ~items[i].is_directory
        /\ (~include_files /\ include_directories)
               => \A i \in 1..Len(items) : items[i].is_directory

C7_Witness ==
    /\ pc = "scanned"
    /\ args.dirs_only
    /\ args.files_only
    /\ items # <<>>
    /\ RegularFiles # {}

(* C8: an error of the traversal is skipped in either pass, the scan goes  *)
(* on with the remaining entries and returns a result; a failure to read   *)
(* the metadata of a regular file ends the scan at once with an error and  *)
(* no result list.                                                         *)
C8_ErrorAsymmetry ==
    [][/\ (pc \in {"pass1", "pass2"} /\ walk # <<>> /\ IsErr(Head(walk)))
            => /\ pc' = pc
               /\ walk' = Tail(walk)
               /\ items' = items
               /\ dir_sizes' = dir_sizes
               /\ out' = out
       /\ (/\ pc = "pass1"
           /\ walk # <<>>
           /\ is_file(Head(walk))
           /\ ~fs[Head(walk)].meta_ok)
            => /\ pc' = "exit_err"
               /\ out' = Failure("MetadataReadFailure")
               /\ items' = <<>>
       /\ pc' = "scanned" => GoneFile \notin {fs[p] : p \in DOMAIN fs}
       /\ (pc' = "exit_err" /\ pc \in {"pass1", "pass2", "sort"})
            => GoneFile \in {fs[p] : p \in DOMAIN fs}]_vars

C8_Witness ==
    /\ pc = "exit_ok"
    /\ out.kind = "table"
    /\ Root \o <<"a">> \in DOMAIN fs
    /\ IsErr(Root \o <<"a">>)
    /\ \E p \in RegularFiles : FileItem(p) \in Range(items)

(* C9: when the scan root does not exist, or the minimum size has an       *)
(* unparseable number or an unknown unit, the run ends in failure before   *)
(* scan_directory is entered: no entry is read and none is emitted.        *)
FatalInput == ~ParsedSizes[args.min_size].ok \/ ~exists(Root)

C9_FatalBeforeScan ==
    FatalInput =>
        /\ pc \in {"main", "parsed", "exit_err"}
        /\ pc = "parsed" => ParsedSizes[args.min_size].ok
        /\ pc = "exit_err" => out.kind = "error"
        /\ pc # "exit_err" => out = NoOutput /\ ENABLED Next
        /\ walk = <<>>
        /\ items = <<>>
        /\ dir_sizes = EmptyMap

C9_Witness ==
    /\ pc = "exit_err"
    /\ out = Failure("InvalidRoot")
    /\ ~exists(Root)

(* C10: parse_size maps a non-negative integer magnitude n with an         *)
(* optional unit, matched without regard to case, to n * 1024^k bytes      *)
(* (k = 0 for no suffix or B, 1 for KB, 2 for MB, 3 for GB, 4 for TB), and *)
(* returns an error for every other suffix.                                *)
DigitPrefix(s) ==
    LET ok(n) == \A i \in 1..n : s[i] \in Digits
    IN  CHOOSE n \in 0..Len(s) : ok(n) /\ (n < Len(s) => ~ok(n + 1))

MagnitudeOf(s) == BFromDec(SubSeq(s, 1, DigitPrefix(s)))

SuffixOf(s) == SubSeq(s, DigitPrefix(s) + 1, Len(s))

\* a digit string followed by letters only
IsIntegerWithSuffix(s) ==
    /\ DigitPrefix(s) >= 1
    /\ \A i \in 1..Len(SuffixOf(s)) : is_alphabetic(SuffixOf(s)[i])

ClaimedPower(u) ==
    LET up == to_uppercase(u)
    IN  CASE up \in {<<>>, <<"B">>} -> 0
          [] up = <<"K", "B">> -> 1
          [] up = <<"M", "B">> -> 2
          [] up = <<"G", "B">> -> 3
          [] up = <<"T", "B">> -> 4
          [] OTHER -> 0 - 1

ClaimedBytes(s) == BMul(MagnitudeOf(s), BPow(1024, ClaimedPower(SuffixOf(s))))

C10_ParseSizeExact ==
    (pc # "main" /\ IsIntegerWithSuffix(args.min_size)) =>
        IF ClaimedPower(SuffixOf(args.min_size)) < 0
        THEN pc = "exit_err" /\ out = Failure("InvalidSizeSpec")
        ELSE pc = "parsed" /\ min_size_bytes = ClaimedBytes(args.min_size)

(* C10 as amended: as C10 for n <= 2^53 and n * 1024^k < 2^64; for         *)
(* n <= 2^53 and n * 1024^k >= 2^64 the result is 2^64 - 1; every          *)
(* integer magnitude with one of the units is accepted.                    *)
C10_ParseSizeExactInRange ==
    (pc # "main" /\ IsIntegerWithSuffix(args.min_size)) =>
        IF ClaimedPower(SuffixOf(args.min_size)) < 0
        THEN pc = "exit_err" /\ out = Failure("InvalidSizeSpec")
        ELSE /\ pc = "parsed"
             /\ BGeq(BShl(<<1>>, 53), MagnitudeOf(args.min_size)) =>
                    min_size_bytes =
                        IF BitLen(ClaimedBytes(args.min_size)) <= 64
                        THEN ClaimedBytes(args.min_size)
                        ELSE Ones(64)

C10_Witness ==
    /\ pc = "parsed"
    /\ args.min_size = <<"5", "0", "0", "k", "b">>
    /\ min_size_bytes = BFromNat(512000)

====
